---- MODULE Spec2Model ----
(***************************************************************************)
(* Model of the "custom" security level of vuln-bank-mobile:               *)
(*   - secureFetch            (src/security/custom/httpClient.ts)          *)
(*   - DataSyncManager (JS)   (NativeModules lookup, possibly undefined)   *)
(*   - DataSyncManager (Kotlin native module): ensureConfigSync, decoys,   *)
(*     getConnectionMetrics, installInterceptorIfNeeded, computeSpkiHash   *)
(*   - ConfigInterceptor.intercept (OkHttp interceptor)                    *)
(*   - the documented Frida replacement of ensureConfigSync                *)
(* Time is one clock in nanoseconds; System.nanoTime reads it, Date.now    *)
(* and System.currentTimeMillis read it in whole milliseconds.             *)
(***************************************************************************)
EXTENDS Integers, Sequences, FiniteSets, TLC

\* ---------------------------------------------------------------- bounds
\* number of secureFetch invocations of one app lifecycle in the model
NumCalls == 2
\* number of ensureConfigSync threads when the native module is driven alone
NumThreads == 3
\* number of secureFetch invocations while the decoy methods are in use
NumDecoyCalls == 1
\* number of apiRequest calls
NumApiCalls == 2
\* the clock stops advancing after this many milliseconds
MaxTimeMs == 100

\* ------------------------------------------------------ program constants
\* (System.nanoTime() - startTime) / 1_000_000
NanosPerMs == 1000000
\* if (elapsedMs < 50)
NativeFloorMs == 50
\* if (elapsed < 30)
JsFloorMs == 30
\* Java.use("java.lang.Thread").sleep(100)
DocHookSleepMs == 100

\* const domain = SSL_PIN_DOMAIN || 'vulnbank.org'
SSL_PIN_DOMAIN == "vulnbank.org"
\* the two pins of the shared .env file (leaf pin, intermediate/backup pin)
SSL_PIN_HASH_1 == "AAAA"
SSL_PIN_HASH_2 == "BBBB"
\* the pin set configured for the domain
ConfiguredPins == {SSL_PIN_HASH_1, SSL_PIN_HASH_2}

\* ------------------------------------------------------------ environment
\* public keys a server (or a man in the middle) may present
Keys == {"k1", "k2", "kx"}

\* computeSpkiHash: Base64(SHA-256(cert.publicKey.encoded)), NO_WRAP.
\* SHA-256 is modelled as a fixed table from keys to fingerprints.
computeSpkiHash(cert) ==
    CASE cert.key = "k1" -> "AAAA"
      [] cert.key = "k2" -> "BBBB"
      [] OTHER           -> "CCCC"

\* the fingerprints of the keys
Fingerprints == {computeSpkiHash([x509 |-> TRUE, key |-> k]) : k \in Keys}

\* what connection.connect() / connection.serverCertificates can yield:
\* an exception, or a chain whose first element is the leaf
X509Leafs == {[x509 |-> TRUE, key |-> k] : k \in Keys}
OtherLeaf == [x509 |-> FALSE, key |-> "none"]
Chains == {<<>>, <<OtherLeaf>>} \cup {<<c>> : c \in X509Leafs}
ConnectExceptions == {"connect timed out"}

Calls == 1..NumCalls

\* ---------------------------------------------------------- error messages
\* a message is a sequence of literal fragments; concatenation is \o
NoError == <<>>
MsgSessionLost == <<"DataSync: Session integrity lost">>
MsgSyncFailedPrefix == "DataSync: Configuration sync failed - "
MsgNoConfig == <<"DataSync: No configuration available">>
MsgFormat == <<"DataSync: Configuration format error">>
MsgMismatch == <<"DataSync: Configuration mismatch">>
MsgTiming == <<"DataSync: Sync timing anomaly">>
MsgNativeFailedPrefix == "DataSync: Sync failed - "
MsgUnavailable == <<"DataSync: Configuration unavailable">>
MsgMissing == <<"DataSync: Configuration missing">>
MsgNetwork == <<"Network request failed">>
MsgJsonParse == <<"JSON Parse error: Unexpected token">>

\* error?.message?.includes('DataSync')
DataSyncFragments ==
    {MsgSessionLost[1], MsgSyncFailedPrefix, MsgNoConfig[1], MsgFormat[1],
     MsgMismatch[1], MsgTiming[1], MsgNativeFailedPrefix, MsgUnavailable[1],
     MsgMissing[1]}
\* a test that finds the word in every message
includesAlways(msg) == TRUE
\* a test that finds the word in no message
includesNever(msg) == FALSE

includesDataSync(msg) == \E k \in 1..Len(msg) : msg[k] \in DataSyncFragments

\* ------------------------------------------------------------------ state
VARIABLES
    sessionCompromised,       \* httpClient.ts: let sessionCompromised
    sessionIntegrity,         \* DataSyncManager.kt: @Volatile sessionIntegrity
    validationCount,          \* DataSyncManager.kt: validationCount
    lastValidationTimestamp,  \* DataSyncManager.kt: lastValidationTimestamp
    interceptorInstalled,     \* DataSyncManager.kt: interceptorInstalled
    interceptor,              \* the ConfigInterceptor given to OkHttp
    moduleLinked,             \* NativeModules.DataSyncManager is defined
    hookSync,                 \* ensureConfigSync replaced by the Frida stub
    hookIntercept,            \* intercept replaced by a pass-through
    hookSleepMs,              \* the stub's Thread.sleep argument
    now,                      \* the clock, ns
    js,                       \* per secureFetch invocation: JS side
    nat,                      \* per ensureConfigSync call: native side
    metrics,                  \* last map resolved by getConnectionMetrics
    hookDecoys,               \* the decoy methods' results are replaced
    decoy,                    \* last result resolved by a decoy method
    lib,                      \* security level "library": httpClient state
    unit,                     \* one validator run on its own: input, output
    build                     \* the build's environment (.env.build)

vars == <<sessionCompromised, sessionIntegrity, validationCount,
          lastValidationTimestamp, interceptorInstalled, interceptor,
          moduleLinked, hookSync, hookIntercept, hookSleepMs, hookDecoys,
          now, js, nat, metrics, decoy, lib, unit, build>>

nativeVars == <<sessionIntegrity, validationCount, lastValidationTimestamp,
                interceptorInstalled, interceptor>>
envVars ==
    <<moduleLinked, hookSync, hookIntercept, hookSleepMs, hookDecoys, build>>

\* a variable that .env.build does not define (allowUndefined: true)
Unset == "undefined"
\* the build of the custom level with the shared .env file's pin
AppBuild == [SSL_PIN_HASH_1 |-> SSL_PIN_HASH_1]
customVars == <<sessionCompromised, nativeVars, envVars, now, js, nat,
                metrics, decoy>>

\* Date.now() and System.currentTimeMillis()
DateNow == now \div NanosPerMs
\* System.nanoTime()
nanoTime == now

\* factoryCalls counts OkHttpClientProvider.setOkHttpClientFactory calls
NoInterceptor == [pinnedDomain |-> "", pinnedHash |-> "", factoryCalls |-> 0]
NoDecoy == [method |-> "none", input |-> "none", outcome |-> "none",
            value |-> "none"]
NoMetrics == [taken |-> FALSE, validationCount |-> 0, lastTimestamp |-> 0,
              sessionIntegrity |-> TRUE]

JsIdle == [pc |-> "idle", start |-> 0, elapsed |-> -1, error |-> NoError,
           blockedAtEntry |-> FALSE, syncCalls |-> 0, fetchCalls |-> 0,
           syncSeen |-> "none", host |-> "", peer |-> "none",
           intercepted |-> FALSE, api |-> "none"]

NatIdle == [pc |-> "none", startTime |-> 0, domain |-> "", pinHash |-> "",
            trippedAtCall |-> FALSE, opened |-> FALSE, leaf |-> "none",
            elapsedNs |-> -1, count |-> 0, incremented |-> FALSE,
            outcome |-> "pending", code |-> "", message |-> NoError,
            value |-> "none", settles |-> 0]

\* the library-level client is a different build of the app: it is not
\* loaded when the custom level runs
LibOff == [loaded |-> FALSE]
\* no validator run on its own
NoUnit == [op |-> "none"]

InitCommon ==
    /\ sessionCompromised = FALSE
    /\ sessionIntegrity = TRUE
    /\ validationCount = 0
    /\ lastValidationTimestamp = 0
    /\ interceptorInstalled = FALSE
    /\ interceptor = NoInterceptor
    /\ now = 0
    /\ js = [i \in Calls |-> JsIdle]
    /\ nat = [i \in Calls |-> NatIdle]
    /\ metrics = NoMetrics
    /\ decoy = NoDecoy
    /\ lib = LibOff
    /\ unit = NoUnit

Init ==
    /\ InitCommon
    /\ build = AppBuild
    /\ moduleLinked \in BOOLEAN
    /\ hookSync = FALSE
    /\ hookIntercept = FALSE
    /\ hookSleepMs = 0
    /\ hookDecoys = FALSE

\* ------------------------------------------------------------------ clock
\* The instants (ns) at which the clock is observed: the start, the last
\* instant below and the first instant at the floor that decides the running
\* configuration (the native floor; the JS floor when ensureConfigSync is
\* replaced and the native floor is gone), and the end of the model's time.
NativeInstants ==
    {0, NativeFloorMs * NanosPerMs - 1, NativeFloorMs * NanosPerMs,
     MaxTimeMs * NanosPerMs}
JsInstants ==
    {0, JsFloorMs * NanosPerMs - 1, JsFloorMs * NanosPerMs,
     MaxTimeMs * NanosPerMs}
Instants == IF hookSync THEN JsInstants ELSE NativeInstants

\* Time matters to the program only while a validation is being timed, so
\* the clock is advanced only then.
Tick ==
    /\ \E i \in DOMAIN js : js[i].pc = "awaitSync"
    /\ \E t \in Instants : t > now /\ now' = t
    /\ UNCHANGED <<sessionCompromised, nativeVars, envVars, js, nat, metrics,
                   decoy, lib, unit>>

\* ------------------------------------------------- decision points (code)
\* an entry that does not look at the flag
entryNeverBlocked == FALSE

\* an entry check that lets the counter restore trust
entryBlockedUnlessCounted == sessionCompromised /\ validationCount = 0

\* if (sessionCompromised) throw new Error('DataSync: Session integrity lost')
entryBlocked == sessionCompromised

\* if (DataSyncManager) { ... }
nativeModulePresent == moduleLinked

\* a default that stands in for a missing pin
pinHashArgDefaulted ==
    IF build.SSL_PIN_HASH_1 \in {Unset, ""}
    THEN SSL_PIN_HASH_1 ELSE build.SSL_PIN_HASH_1

\* const pinHash = SSL_PIN_HASH_1 || ''
pinHashArg ==
    IF build.SSL_PIN_HASH_1 \in {Unset, ""} THEN "" ELSE build.SSL_PIN_HASH_1

\* the JS floor with the boundary on the wrong side
jsTimingAnomalyInclusive(elapsed) == elapsed <= JsFloorMs

\* if (elapsed < 30)
jsTimingAnomaly(elapsed) == elapsed < JsFloorMs

\* the letters of a pin folded to one case
foldCase(pin) ==
    CASE pin = "aaaa" -> "AAAA"
      [] OTHER -> pin

\* a comparison that ignores the case of the letters
pinMismatchIgnoreCase(spkiHash, pinHash) ==
    foldCase(spkiHash) # foldCase(pinHash)

\* a comparison that looks at nothing
pinMismatchNever(spkiHash, pinHash) == FALSE

\* a comparison that trusts the last decoy result
pinMismatchUnlessDecoy(spkiHash, pinHash) ==
    spkiHash # pinHash /\ decoy.value # "true"

\* if (spkiHash != pinHash)
pinMismatch(spkiHash, pinHash) == spkiHash # pinHash

\* val elapsedMs = (System.nanoTime() - startTime) / 1_000_000
elapsedMsSince(startTime) == (nanoTime - startTime) \div NanosPerMs

\* the native floor with the boundary on the wrong side
nativeTimingAnomalyInclusive(elapsedMs) == elapsedMs <= NativeFloorMs

\* if (elapsedMs < 50)
nativeTimingAnomaly(elapsedMs) == elapsedMs < NativeFloorMs

\* a failing path that forgets the assignment
keptIntegrity == sessionIntegrity

\* the value every failing path assigns: sessionIntegrity = false
trippedIntegrity == FALSE

\* a success path that re-arms the flag
rearmedIntegrity == TRUE

\* the success path (validationCount++ ... promise.resolve) writes no flag
integrityOnSuccess == sessionIntegrity

\* a catch block that forgets the assignment
keptSession == sessionCompromised

\* the value the JS failure paths assign: sessionCompromised = true
trippedSession == TRUE

\* the checks with the timing floor moved in front of the certificate checks
validateChainTimingFirst(certs, pinHash, elapsedMs) ==
    IF nativeTimingAnomaly(elapsedMs)
    THEN [ok |-> FALSE, code |-> "CONFIG_ERROR", message |-> MsgTiming]
    ELSE IF certs = <<>>
    THEN [ok |-> FALSE, code |-> "CONFIG_ERROR", message |-> MsgNoConfig]
    ELSE IF ~certs[1].x509
    THEN [ok |-> FALSE, code |-> "CONFIG_ERROR", message |-> MsgFormat]
    ELSE IF pinMismatch(computeSpkiHash(certs[1]), pinHash)
    THEN [ok |-> FALSE, code |-> "CONFIG_MISMATCH", message |-> MsgMismatch]
    ELSE [ok |-> TRUE, code |-> "", message |-> NoError]

\* the checks of ensureConfigSync between connect() and promise.resolve, in
\* the order of the code; the first failing one decides the rejection
validateChain(certs, pinHash, elapsedMs) ==
    IF certs = <<>>
    THEN [ok |-> FALSE, code |-> "CONFIG_ERROR", message |-> MsgNoConfig]
    ELSE IF ~certs[1].x509
    THEN [ok |-> FALSE, code |-> "CONFIG_ERROR", message |-> MsgFormat]
    ELSE IF pinMismatch(computeSpkiHash(certs[1]), pinHash)
    THEN [ok |-> FALSE, code |-> "CONFIG_MISMATCH", message |-> MsgMismatch]
    ELSE IF nativeTimingAnomaly(elapsedMs)
    THEN [ok |-> FALSE, code |-> "CONFIG_ERROR", message |-> MsgTiming]
    ELSE [ok |-> TRUE, code |-> "", message |-> NoError]

\* catch (e: Exception): "DataSync: Sync failed - ${e.message}"
syncFailed(e) ==
    [ok |-> FALSE, code |-> "CONFIG_ERROR",
     message |-> <<MsgNativeFailedPrefix, e>>]

\* connection.serverCertificates[0], as the checks see it
leafOf(certs) ==
    IF certs = <<>> THEN "empty"
    ELSE IF ~certs[1].x509 THEN "notX509"
    ELSE computeSpkiHash(certs[1])

\* ------------------------------------------- DataSyncManager (native side)
\* @ReactMethod ensureConfigSync(domain, pinHash, promise): takes startTime
\* and starts the validation thread; the record of the started call
ensureConfigSync(domain, pinHash) ==
    [NatIdle EXCEPT !.pc = "install",
                    !.domain = domain,
                    !.pinHash = pinHash,
                    !.startTime = nanoTime,
                    !.trippedAtCall = ~sessionIntegrity]

\* a hook that hands the call on to the original method
hookFallsThrough(domain, pinHash) ==
    [NatIdle EXCEPT !.pc = "install",
                    !.domain = domain,
                    !.pinHash = pinHash,
                    !.startTime = nanoTime,
                    !.trippedAtCall = ~sessionIntegrity]

\* the documented replacement (Approach A) of the method:
\* ensureConfigSync.implementation = function (domain, pinHash, promise),
\* which starts sleeping
hookedEnsureConfigSync(domain, pinHash) ==
    [NatIdle EXCEPT !.pc = "sleeping",
                    !.domain = domain,
                    !.pinHash = pinHash,
                    !.startTime = nanoTime,
                    !.trippedAtCall = ~sessionIntegrity]

\* ------------------------------------------------------------ secureFetch
\* entry of secureFetch up to the first await (httpClient.ts 48-59); the
\* native method runs when the bridge delivers the call, and the time the
\* bridge takes is part of the time the validation takes
secureFetch(i) ==
    /\ js[i].pc = "idle"
    /\ \A j \in DOMAIN js : j < i => js[j].pc # "idle"
    /\ IF entryBlocked
       THEN /\ js' = [js EXCEPT ![i] = [@ EXCEPT !.pc = "threw",
                                                 !.error = MsgSessionLost,
                                                 !.blockedAtEntry = TRUE]]
            /\ UNCHANGED nat
       ELSE IF nativeModulePresent
       THEN /\ js' = [js EXCEPT ![i] = [@ EXCEPT !.pc = "awaitSync",
                                                 !.start = DateNow,
                                                 !.syncCalls = @ + 1]]
            /\ nat' = [nat EXCEPT ![i] =
                         IF hookSync
                         THEN hookedEnsureConfigSync(SSL_PIN_DOMAIN, pinHashArg)
                         ELSE ensureConfigSync(SSL_PIN_DOMAIN, pinHashArg)]
       ELSE /\ js' = [js EXCEPT ![i] = [@ EXCEPT !.pc = "awaitFetch",
                                                 !.fetchCalls = @ + 1]]
            /\ UNCHANGED nat
    /\ UNCHANGED <<sessionCompromised, nativeVars, envVars, now, metrics,
                   decoy, lib, unit>>

\* if (interceptorInstalled) return
alreadyInstalledNever == FALSE
alreadyInstalled == interceptorInstalled

\* a thread body that opens the connection without installing first
installInterceptorSkipped(i) ==
    /\ nat[i].pc = "install"
    /\ nat' = [nat EXCEPT ![i].pc = "connect"]
    /\ UNCHANGED <<sessionCompromised, nativeVars, envVars, now, js, metrics,
                   decoy, lib, unit>>

\* @Synchronized installInterceptorIfNeeded(domain, pinHash)
installInterceptorIfNeeded(i) ==
    /\ nat[i].pc = "install"
    /\ IF alreadyInstalled
       THEN UNCHANGED <<interceptor, interceptorInstalled>>
       ELSE /\ interceptor' = [pinnedDomain |-> nat[i].domain,
                               pinnedHash |-> nat[i].pinHash,
                               factoryCalls |-> interceptor.factoryCalls + 1]
            /\ interceptorInstalled' = TRUE
    /\ nat' = [nat EXCEPT ![i].pc = "connect"]
    /\ UNCHANGED <<sessionCompromised, sessionIntegrity, validationCount,
                   lastValidationTimestamp, envVars, now, js, metrics,
                   decoy, lib, unit>>

\* a rejecting path without its return: the thread goes on to the success
\* path after promise.reject
rejectAndGoOn(i, r, leaf, elapsedNs) ==
    /\ sessionIntegrity' = trippedIntegrity
    /\ nat' = [nat EXCEPT ![i] = [@ EXCEPT !.pc = "count",
                                           !.startTime = 0,
                                           !.opened = TRUE,
                                           !.leaf = leaf,
                                           !.elapsedNs = elapsedNs,
                                           !.count = validationCount,
                                           !.outcome = "rejected",
                                           !.code = r.code,
                                           !.message = r.message,
                                           !.settles = @ + 1]]

\* a rejecting path: sessionIntegrity = false, then promise.reject(code, msg)
\* and return@Thread; settles counts the calls of resolve and reject
rejectCall(i, r, leaf, elapsedNs) ==
    /\ sessionIntegrity' = trippedIntegrity
    /\ nat' = [nat EXCEPT ![i] = [@ EXCEPT !.pc = "settled",
                                           !.startTime = 0,
                                           !.opened = TRUE,
                                           !.leaf = leaf,
                                           !.elapsedNs = elapsedNs,
                                           !.outcome = "rejected",
                                           !.code = r.code,
                                           !.message = r.message,
                                           !.settles = @ + 1]]

\* a thread body that counts the validation before its outcome is known
connectAndCountFirst(i) ==
    /\ nat[i].pc = "connect"
    /\ validationCount' = validationCount + 1
    /\ lastValidationTimestamp' = DateNow
    /\ \E e \in ConnectExceptions :
          rejectCall(i, syncFailed(e), "exception", -1)
    /\ UNCHANGED <<sessionCompromised, interceptorInstalled, interceptor,
                   envVars, now, js, metrics, decoy, lib, unit>>

\* the thread body from url.openConnection() to the last check: connect()
\* throws, or yields a chain that is checked; on success the thread has read
\* validationCount for the increment
connectAndValidate(i) ==
    /\ nat[i].pc = "connect"
    /\ \/ \E e \in ConnectExceptions :
            rejectCall(i, syncFailed(e), "exception", -1)
       \/ \E certs \in Chains :
            LET elapsedMs == elapsedMsSince(nat[i].startTime)
                r == validateChain(certs, nat[i].pinHash, elapsedMs)
                \* what the clock said when a leaf certificate was checked
                elapsedNs == IF leafOf(certs) \in Fingerprints
                             THEN nanoTime - nat[i].startTime ELSE -1
            IN  IF r.ok
                THEN /\ nat' = [nat EXCEPT ![i] = [@ EXCEPT
                                     !.pc = "count",
                                     !.startTime = 0,
                                     !.opened = TRUE,
                                     !.leaf = leafOf(certs),
                                     !.elapsedNs = elapsedNs,
                                     !.count = validationCount]]
                     /\ UNCHANGED sessionIntegrity
                ELSE rejectCall(i, r, leafOf(certs), elapsedNs)
    /\ UNCHANGED <<sessionCompromised, validationCount,
                   lastValidationTimestamp, interceptorInstalled, interceptor,
                   envVars, now, js, metrics, decoy, lib, unit>>

\* validationCount++ (write back), lastValidationTimestamp, promise.resolve
countAndResolve(i) ==
    /\ nat[i].pc = "count"
    /\ validationCount' = nat[i].count + 1
    /\ lastValidationTimestamp' = DateNow
    /\ sessionIntegrity' = integrityOnSuccess
    /\ nat' = [nat EXCEPT ![i] = [@ EXCEPT !.pc = "settled",
                                           !.count = 0,
                                           !.incremented = TRUE,
                                           !.outcome = "resolved",
                                           !.value = "true",
                                           !.settles = @ + 1]]
    /\ UNCHANGED <<sessionCompromised, interceptorInstalled, interceptor,
                   envVars, now, js, metrics, decoy, lib, unit>>

\* getConnectionMetrics: resolves a map of the three fields
getConnectionMetrics ==
    /\ moduleLinked
    /\ metrics' = [taken |-> TRUE,
                   validationCount |-> validationCount,
                   lastTimestamp |-> lastValidationTimestamp,
                   sessionIntegrity |-> sessionIntegrity]
    /\ UNCHANGED <<sessionCompromised, nativeVars, envVars, now, js, nat,
                   decoy, lib, unit>>

\* ------------------------------------------------------ ConfigInterceptor
\* host.equals(pinnedDomain, ignoreCase = true) compares case-folded names
lowerCase(h) ==
    CASE h = "VulnBank.org" -> "vulnbank.org"
      [] OTHER -> h

\* hosts a request of the app may name
RequestHosts == {"vulnbank.org", "api.vulnbank.org"}

\* what the primary transport's handshake can yield: response.handshake is
\* null, or it carries the peer certificates
PrimaryConns ==
    {[handshake |-> FALSE, certs |-> <<>>]}
        \cup {[handshake |-> TRUE, certs |-> c] : c \in Chains}

\* an interceptor that only proceeds: return chain.proceed(chain.request())
interceptPassThrough(host, conn, self) == NoError

\* ConfigInterceptor.computeSpkiHash: the interceptor's own copy,
\* Base64(SHA-256(cert.publicKey.encoded)), NO_WRAP
ConfigInterceptor_computeSpkiHash(cert) ==
    CASE cert.key = "k1" -> "AAAA"
      [] cert.key = "k2" -> "BBBB"
      [] OTHER           -> "CCCC"

\* a host test that also takes the subdomains of the pinned domain
hostIsPinnedOrSubdomain(host, self) ==
    \/ lowerCase(host) = lowerCase(self.pinnedDomain)
    \/ host = "api.vulnbank.org" /\ self.pinnedDomain = "vulnbank.org"

\* host.equals(pinnedDomain, ignoreCase = true)
hostIsPinned(host, self) == lowerCase(host) = lowerCase(self.pinnedDomain)

\* ConfigInterceptor.intercept: NoError when the response is returned, else
\* the message of the IOException thrown
intercept(host, conn, self) ==
    IF ~hostIsPinned(host, self) THEN NoError
    ELSE IF ~conn.handshake THEN MsgUnavailable
    ELSE IF conn.certs = <<>> THEN MsgMissing
    ELSE IF ~conn.certs[1].x509 THEN MsgFormat
    ELSE IF ConfigInterceptor_computeSpkiHash(conn.certs[1]) # self.pinnedHash
    THEN MsgMismatch
    ELSE NoError

\* a mismatch that throws with the response body left open
onMismatchLeak == <<"throw">>

\* response.body?.close(); throw IOException(...)
onMismatch == <<"closeBody", "throw">>

\* what intercept does, in order, for a request the transport answers with
\* conn: the calls it makes on the chain and the response, and its checks
interceptTrace(host, conn, self) ==
    IF ~hostIsPinned(host, self) THEN <<"proceed", "return">>
    ELSE IF ~conn.handshake THEN <<"proceed", "checkHandshake", "throw">>
    ELSE IF conn.certs = <<>>
    THEN <<"proceed", "checkHandshake", "checkCerts", "throw">>
    ELSE IF ~conn.certs[1].x509
    THEN <<"proceed", "checkHandshake", "checkCerts", "checkX509", "throw">>
    ELSE IF ConfigInterceptor_computeSpkiHash(conn.certs[1]) # self.pinnedHash
    THEN <<"proceed", "checkHandshake", "checkCerts", "checkX509",
           "checkPin">> \o onMismatch
    ELSE <<"proceed", "checkHandshake", "checkCerts", "checkX509",
           "checkPin", "return">>

\* the ConfigInterceptor runs on the primary transport once the client
\* factory has it, unless intercept is replaced by chain.proceed
interceptorRuns == interceptorInstalled /\ ~hookIntercept

\* the error of the primary fetch for a request that reached the server
transportError(host, conn) ==
    IF interceptorRuns
    THEN intercept(host, conn, interceptor)
    ELSE NoError

\* response.handshake?.peerCertificates[0], as the checks see it
peerOf(conn) == IF ~conn.handshake THEN "noHandshake" ELSE leafOf(conn.certs)

\* ------------------------------------------- secureFetch, after the awaits
\* a catch block that swallows the rejection and goes on to the request
downgradeAfterSyncRejected == "awaitFetch"

\* the catch of the ensureConfigSync await ends the invocation: throw new Error
afterSyncRejected == "threw"

\* catch of the ensureConfigSync await: `${error?.message || error}`
syncFailedMessage(message) == <<MsgSyncFailedPrefix>> \o message

\* the record of a settled call once its promise has been delivered to JS:
\* the thread is gone, what it saw is dropped, the outcome stays
delivered(n) ==
    [NatIdle EXCEPT !.pc = "delivered", !.outcome = n.outcome,
                    !.value = n.value, !.message = n.message,
                    !.trippedAtCall = n.trippedAtCall,
                    !.incremented = n.incremented,
                    !.settles = n.settles]

\* continuation of secureFetch when the ensureConfigSync promise settles
\* (httpClient.ts 60-74): catch, timing check, then the call of fetch
syncSettled(i) ==
    /\ js[i].pc = "awaitSync"
    /\ nat[i].outcome # "pending"
    /\ IF nat[i].outcome = "rejected"
       THEN /\ sessionCompromised' = trippedSession
            /\ js' = [js EXCEPT ![i] = [@ EXCEPT
                        !.pc = afterSyncRejected,
                        !.start = 0,
                        !.syncSeen = "rejected",
                        !.error = syncFailedMessage(nat[i].message)]]
       ELSE LET elapsed == DateNow - js[i].start
            IN  IF jsTimingAnomaly(elapsed)
                THEN /\ sessionCompromised' = trippedSession
                     /\ js' = [js EXCEPT ![i] = [@ EXCEPT
                                 !.pc = "threw",
                                 !.start = 0,
                                 !.syncSeen = "resolved",
                                 !.elapsed = elapsed,
                                 !.error = MsgSessionLost]]
                ELSE /\ UNCHANGED sessionCompromised
                     /\ js' = [js EXCEPT ![i] = [@ EXCEPT
                                 !.pc = "awaitFetch",
                                 !.start = 0,
                                 !.syncSeen = "resolved",
                                 !.elapsed = elapsed,
                                 !.fetchCalls = @ + 1]]
    /\ nat' = [nat EXCEPT ![i] = delivered(@)]
    /\ UNCHANGED <<nativeVars, envVars, now, metrics, decoy, lib, unit>>

\* the fetch promise rejects with `message`: catch block (httpClient.ts 84-90)
fetchThrew(i, seen, message) ==
    /\ sessionCompromised' =
           IF includesDataSync(message) THEN trippedSession
           ELSE sessionCompromised
    /\ js' = [js EXCEPT ![i] = [seen EXCEPT !.pc = "threw",
                                            !.error = message]]

\* continuation of secureFetch when the primary fetch settles
fetchSettled(i) ==
    /\ js[i].pc = "awaitFetch"
    /\ \/ fetchThrew(i, js[i], MsgNetwork)
       \/ \E host \in RequestHosts, conn \in PrimaryConns :
            LET message == transportError(host, conn)
                \* the leaf is kept for requests to the pinned domain only:
                \* no check and no claim looks at another server's leaf
                seen == [js[i] EXCEPT !.host = host,
                                      !.peer = IF lowerCase(host) =
                                                  lowerCase(SSL_PIN_DOMAIN)
                                               THEN peerOf(conn)
                                               ELSE "none",
                                      !.intercepted = interceptorRuns]
            IN  IF message = NoError
                THEN /\ js' = [js EXCEPT ![i] = [seen EXCEPT !.pc = "returned"]]
                     /\ UNCHANGED sessionCompromised
                ELSE fetchThrew(i, seen, message)
    /\ UNCHANGED <<nativeVars, envVars, now, nat, metrics, decoy, lib, unit>>

\* ------------------------------------- documented replacement (Approach A)
\* Thread.sleep(ms) has returned: promise.resolve(null)
hookedResolve(i) ==
    /\ nat[i].pc = "sleeping"
    /\ nanoTime - nat[i].startTime >= hookSleepMs * NanosPerMs
    /\ nat' = [nat EXCEPT ![i] = [@ EXCEPT !.pc = "settled",
                                           !.startTime = 0,
                                           !.outcome = "resolved",
                                           !.value = "null",
                                           !.settles = @ + 1]]
    /\ UNCHANGED <<sessionCompromised, nativeVars, envVars, now, js, metrics,
                   decoy, lib, unit>>

\* --------------------------------------------------------- specifications
\* the invocations are those of the running specification
Next ==
    \/ Tick
    \/ \E i \in DOMAIN js : secureFetch(i)
    \/ \E i \in DOMAIN js : installInterceptorIfNeeded(i)
    \/ \E i \in DOMAIN js : connectAndValidate(i)
    \/ \E i \in DOMAIN js : countAndResolve(i)
    \/ \E i \in DOMAIN js : syncSettled(i)
    \/ \E i \in DOMAIN js : fetchSettled(i)
    \/ getConnectionMetrics

Spec == Init /\ [][Next]_vars

\* the app built with or without the pin in its environment
PinSettings == {SSL_PIN_HASH_1, "", Unset}

InitPins ==
    /\ InitCommon
    /\ build \in {[SSL_PIN_HASH_1 |-> p] : p \in PinSettings}
    /\ moduleLinked \in BOOLEAN
    /\ hookSync = FALSE
    /\ hookIntercept = FALSE
    /\ hookSleepMs = 0
    /\ hookDecoys = FALSE

NextPins ==
    \/ Tick
    \/ \E i \in Calls : secureFetch(i)
    \/ \E i \in Calls : installInterceptorIfNeeded(i)
    \/ \E i \in Calls : connectAndValidate(i)
    \/ \E i \in Calls : countAndResolve(i)
    \/ \E i \in Calls : syncSettled(i)
    \/ \E i \in Calls : fetchSettled(i)

SpecPins == InitPins /\ [][NextPins]_vars

\* the app under instrumentation: one or both documented hooks installed
HookSleeps == {0, DocHookSleepMs}

InitHooked ==
    /\ InitCommon
    /\ build = AppBuild
    /\ moduleLinked = TRUE
    /\ hookSync \in BOOLEAN
    /\ hookIntercept \in BOOLEAN
    /\ hookSync \/ hookIntercept
    /\ hookSleepMs \in (IF hookSync THEN HookSleeps ELSE {0})
    /\ hookDecoys = FALSE

NextHooked ==
    \/ Next
    \/ \E i \in Calls : hookedResolve(i)

SpecHooked == InitHooked /\ [][NextHooked]_vars

\* ------------------------------------------ the native module driven alone
\* Every ensureConfigSync call starts a thread of its own, so the calls of
\* concurrent secureFetch invocations run concurrently in the module. Here
\* the module's methods are called by any client, the JS side left out.
Threads == 1..NumThreads

\* a client calls ensureConfigSync with the app's arguments
callEnsureConfigSync(i) ==
    /\ moduleLinked
    /\ nat[i].pc = "none"
    /\ \A j \in DOMAIN nat : j < i => nat[j].pc # "none"
    /\ nat' = [nat EXCEPT ![i] = ensureConfigSync(SSL_PIN_DOMAIN, pinHashArg)]
    /\ UNCHANGED <<sessionCompromised, nativeVars, envVars, now, js, metrics,
                   decoy, lib, unit>>

\* the clock matters to the module while a thread has its measurement ahead
TickNative ==
    /\ \E i \in DOMAIN nat : nat[i].pc \in {"install", "connect"}
    /\ \E t \in NativeInstants : t > now /\ now' = t
    /\ UNCHANGED <<sessionCompromised, nativeVars, envVars, js, nat, metrics,
                   decoy, lib, unit>>

InitNative ==
    /\ sessionCompromised = FALSE
    /\ sessionIntegrity = TRUE
    /\ validationCount = 0
    /\ lastValidationTimestamp = 0
    /\ interceptorInstalled = FALSE
    /\ interceptor = NoInterceptor
    /\ now = 0
    /\ js = [i \in Calls |-> JsIdle]
    /\ nat = [i \in Threads |-> NatIdle]
    /\ metrics = NoMetrics
    /\ decoy = NoDecoy
    /\ build = AppBuild
    /\ lib = LibOff
    /\ unit = NoUnit
    /\ moduleLinked = TRUE
    /\ hookSync = FALSE
    /\ hookIntercept = FALSE
    /\ hookSleepMs = 0
    /\ hookDecoys = FALSE

NextNative ==
    \/ TickNative
    \/ \E i \in Threads : callEnsureConfigSync(i)
    \/ \E i \in Threads : installInterceptorIfNeeded(i)
    \/ \E i \in Threads : connectAndValidate(i)
    \/ \E i \in Threads : countAndResolve(i)
    \/ getConnectionMetrics

SpecNative == InitNative /\ [][NextNative]_vars

\* ------------------------------- the native module called by any client
\* ensureConfigSync is a @ReactMethod: its arguments are whatever the
\* caller passes, not only the app's configured domain and pin.
NumClientCalls == 2
ClientCalls == 1..NumClientCalls
\* the app's arguments, another pin, another domain with another pin
ClientArgs == {<<SSL_PIN_DOMAIN, SSL_PIN_HASH_1>>,
               <<SSL_PIN_DOMAIN, SSL_PIN_HASH_2>>,
               <<"api.vulnbank.org", SSL_PIN_HASH_2>>}

\* a client calls ensureConfigSync(domain, pinHash, promise)
clientCallsEnsureConfigSync(i) ==
    /\ moduleLinked
    /\ nat[i].pc = "none"
    /\ \A j \in ClientCalls : j < i => nat[j].pc # "none"
    /\ \E args \in ClientArgs :
          nat' = [nat EXCEPT ![i] = ensureConfigSync(args[1], args[2])]
    /\ UNCHANGED <<sessionCompromised, nativeVars, envVars, now, js, metrics,
                   decoy, lib, unit>>

InitClients ==
    /\ sessionCompromised = FALSE
    /\ sessionIntegrity = TRUE
    /\ validationCount = 0
    /\ lastValidationTimestamp = 0
    /\ interceptorInstalled = FALSE
    /\ interceptor = NoInterceptor
    /\ now = 0
    /\ js = [i \in Calls |-> JsIdle]
    /\ nat = [i \in ClientCalls |-> NatIdle]
    /\ metrics = NoMetrics
    /\ decoy = NoDecoy
    /\ build = AppBuild
    /\ lib = LibOff
    /\ unit = NoUnit
    /\ moduleLinked = TRUE
    /\ hookSync = FALSE
    /\ hookIntercept = FALSE
    /\ hookSleepMs = 0
    /\ hookDecoys = FALSE

NextClients ==
    \/ TickNative
    \/ \E i \in ClientCalls : clientCallsEnsureConfigSync(i)
    \/ \E i \in ClientCalls : installInterceptorIfNeeded(i)
    \/ \E i \in ClientCalls : connectAndValidate(i)
    \/ \E i \in ClientCalls : countAndResolve(i)

SpecClients == InitClients /\ [][NextClients]_vars

\* ------------------------------------ the validation threads, scheduled
NumLiveCalls == 2
LiveCalls == 1..NumLiveCalls

\* the steps of the thread that ensureConfigSync call i started
threadStep(i) ==
    \/ installInterceptorIfNeeded(i)
    \/ connectAndValidate(i)
    \/ countAndResolve(i)

InitLive ==
    /\ sessionCompromised = FALSE
    /\ sessionIntegrity = TRUE
    /\ validationCount = 0
    /\ lastValidationTimestamp = 0
    /\ interceptorInstalled = FALSE
    /\ interceptor = NoInterceptor
    /\ now = 0
    /\ js = [i \in Calls |-> JsIdle]
    /\ nat = [i \in LiveCalls |-> NatIdle]
    /\ metrics = NoMetrics
    /\ decoy = NoDecoy
    /\ build = AppBuild
    /\ lib = LibOff
    /\ unit = NoUnit
    /\ moduleLinked = TRUE
    /\ hookSync = FALSE
    /\ hookIntercept = FALSE
    /\ hookSleepMs = 0
    /\ hookDecoys = FALSE

NextLive ==
    \/ TickNative
    \/ \E i \in LiveCalls : callEnsureConfigSync(i)
    \/ \E i \in LiveCalls : threadStep(i)

\* a started thread is scheduled, and connect() returns or throws within
\* connectTimeout / readTimeout
SpecLive ==
    /\ InitLive
    /\ [][NextLive]_vars
    /\ \A i \in LiveCalls : WF_vars(threadStep(i))

\* -------------------------------------------------------------- apiRequest
\* the words isSecurityError looks for
SecurityWords ==
    {"DataSync", "Configuration mismatch", "Session integrity", "SSL",
     "certificate", "CERT", "Trust anchor"}

\* which of those words a fragment of a message contains
wordsIn(fragment) ==
    CASE fragment = MsgMismatch[1] -> {"DataSync", "Configuration mismatch"}
      [] fragment = MsgSessionLost[1] -> {"DataSync", "Session integrity"}
      [] fragment \in DataSyncFragments -> {"DataSync"}
      [] OTHER -> {}

\* a classifier that recognises nothing
isSecurityErrorNever(msg) == FALSE

\* isSecurityError: errorMessage.includes(...) || ... || sessionCompromised
isSecurityError(msg) ==
    \/ \E k \in 1..Len(msg) : wordsIn(msg[k]) \cap SecurityWords # {}
    \/ sessionCompromised

\* the catch block of apiRequest: what it returns for a caught error
apiCatch(msg) ==
    IF isSecurityError(msg) THEN "CERTIFICATE_PINNING_FAILED"
    ELSE "NETWORK_ERROR"

\* what response.json() can do
JsonOutcomes == {"parsed", "threw"}

\* the record of an apiRequest call that has returned its result
apiDone(j, err, result) ==
    [JsIdle EXCEPT !.pc = "apiDone", !.api = result, !.error = err,
                   !.blockedAtEntry = j.blockedAtEntry]

\* apiRequest after `await secureFetch(...)`: parse and return the response,
\* or catch the error of secureFetch or of response.json()
apiRequestSettles(i) ==
    /\ js[i].pc \in {"returned", "threw"}
    /\ IF js[i].pc = "threw"
       THEN js' = [js EXCEPT ![i] =
                      apiDone(@, js[i].error, apiCatch(js[i].error))]
       ELSE \E json \in JsonOutcomes :
              js' = [js EXCEPT ![i] =
                        IF json = "parsed"
                        THEN apiDone(@, NoError, "RESPONSE")
                        ELSE apiDone(@, MsgJsonParse, apiCatch(MsgJsonParse))]
    \* the invocation is over: nothing refers to its native call any more
    /\ nat' = [nat EXCEPT ![i] = NatIdle]
    /\ UNCHANGED <<sessionCompromised, nativeVars, envVars, now, metrics,
                   decoy, lib, unit>>

\* the app's requests, all made through apiRequest
ApiCalls == 1..NumApiCalls

InitApi ==
    /\ sessionCompromised = FALSE
    /\ sessionIntegrity = TRUE
    /\ validationCount = 0
    /\ lastValidationTimestamp = 0
    /\ interceptorInstalled = FALSE
    /\ interceptor = NoInterceptor
    /\ now = 0
    /\ js = [i \in ApiCalls |-> JsIdle]
    /\ nat = [i \in ApiCalls |-> NatIdle]
    /\ metrics = NoMetrics
    /\ decoy = NoDecoy
    /\ build = AppBuild
    /\ lib = LibOff
    /\ unit = NoUnit
    /\ moduleLinked \in BOOLEAN
    /\ hookSync = FALSE
    /\ hookIntercept = FALSE
    /\ hookSleepMs = 0
    /\ hookDecoys = FALSE

\* the wrapper drives secureFetch only: it never reads the metrics
NextApi ==
    \/ Tick
    \/ \E i \in ApiCalls : secureFetch(i)
    \/ \E i \in ApiCalls : installInterceptorIfNeeded(i)
    \/ \E i \in ApiCalls : connectAndValidate(i)
    \/ \E i \in ApiCalls : countAndResolve(i)
    \/ \E i \in ApiCalls : syncSettled(i)
    \/ \E i \in ApiCalls : fetchSettled(i)
    \/ \E i \in ApiCalls : apiRequestSettles(i)

SpecApi == InitApi /\ [][NextApi]_vars

\* ----------------------------------------------------------- decoy methods
\* what validateCertificate's connection can yield
DecoyInputs == {"exception", "empty", "nonEmpty"}

\* a validateCertificate that reports what it found
validateCertificateHonest(input) ==
    IF input = "exception"
    THEN [outcome |-> "rejected", value |-> "none"]
    ELSE [outcome |-> "resolved",
          value |-> IF input = "nonEmpty" THEN "true" ELSE "false"]

\* validateCertificate: promise.resolve(certs.isNotEmpty()), and
\* promise.resolve(true) in the catch block
validateCertificateResult(input) ==
    IF input = "exception"
    THEN [outcome |-> "resolved", value |-> "true"]
    ELSE [outcome |-> "resolved",
          value |-> IF input = "nonEmpty" THEN "true" ELSE "false"]

\* checkSSLPinning and verifyCertificateChain: promise.resolve(true)
stubResult == [outcome |-> "resolved", value |-> "true"]

\* the values a replaced decoy can be made to resolve
ForcedValues == {"true", "false"}

\* a decoy call settles: the method's own result, or the forced one of a
\* replaced implementation, which makes no connection
decoySettles(method, input, own) ==
    /\ moduleLinked
    /\ \E forced \in ForcedValues :
          decoy' = IF hookDecoys
                   THEN [method |-> method, input |-> "none",
                         outcome |-> "resolved", value |-> forced]
                   ELSE [method |-> method, input |-> input,
                         outcome |-> own.outcome, value |-> own.value]
    /\ UNCHANGED <<sessionCompromised, nativeVars, envVars, now, js, nat,
                   metrics, lib, unit>>

\* @ReactMethod validateCertificate(domain, promise)
validateCertificate ==
    \E input \in DecoyInputs :
        decoySettles("validateCertificate", input,
                     validateCertificateResult(input))

\* @ReactMethod checkSSLPinning(promise)
checkSSLPinning == decoySettles("checkSSLPinning", "none", stubResult)

\* @ReactMethod verifyCertificateChain(promise)
verifyCertificateChain ==
    decoySettles("verifyCertificateChain", "none", stubResult)

\* the app with the decoy methods called at any time, their results
\* replaced or not
DecoyCalls == 1..NumDecoyCalls

InitDecoys ==
    /\ sessionCompromised = FALSE
    /\ sessionIntegrity = TRUE
    /\ validationCount = 0
    /\ lastValidationTimestamp = 0
    /\ interceptorInstalled = FALSE
    /\ interceptor = NoInterceptor
    /\ now = 0
    /\ js = [i \in DecoyCalls |-> JsIdle]
    /\ nat = [i \in DecoyCalls |-> NatIdle]
    /\ metrics = NoMetrics
    /\ decoy = NoDecoy
    /\ build = AppBuild
    /\ lib = LibOff
    /\ unit = NoUnit
    /\ moduleLinked = TRUE
    /\ hookSync = FALSE
    /\ hookIntercept = FALSE
    /\ hookSleepMs = 0
    /\ hookDecoys \in BOOLEAN

NextDecoys ==
    \/ Next
    \/ validateCertificate
    \/ checkSSLPinning
    \/ verifyCertificateChain

SpecDecoys == InitDecoys /\ [][NextDecoys]_vars

\* ------------------------------------------- the validators on their own
\* Each validation layer run once on inputs of its own: the checks of
\* ensureConfigSync on a leaf certificate, and ConfigInterceptor.intercept
\* on one request.

\* pin strings: the fingerprints of the keys, the first one in the other
\* case, a proper prefix of it, an extension of it, and the unset pin
UnitPins == Fingerprints \cup {"aaaa", "AAA", "AAAAB", ""}

\* hosts of a request: the pinned domain, the same name in another case, a
\* subdomain of it, an unrelated host
UnitHosts == {"vulnbank.org", "VulnBank.org", "api.vulnbank.org",
              "evil.example"}

\* elapsed times on both sides of the native floor
UnitElapsedMs == {NativeFloorMs - 1, NativeFloorMs}

\* both layers check the same leaf certificate against the same pin
validateBoth ==
    /\ \E cert \in X509Leafs, pin \in UnitPins, elapsedMs \in UnitElapsedMs :
          unit' = [op |-> "validate", cert |-> cert, pin |-> pin,
                   elapsedMs |-> elapsedMs,
                   dedicatedHash |-> computeSpkiHash(cert),
                   interceptorHash |->
                       ConfigInterceptor_computeSpkiHash(cert),
                   dedicated |-> validateChain(<<cert>>, pin, elapsedMs),
                   primary |->
                       intercept(SSL_PIN_DOMAIN,
                                 [handshake |-> TRUE, certs |-> <<cert>>],
                                 [pinnedDomain |-> SSL_PIN_DOMAIN,
                                  pinnedHash |-> pin])]
    /\ UNCHANGED <<customVars, lib>>

\* OkHttp runs the interceptor on one request
interceptOnce ==
    /\ \E host \in UnitHosts, conn \in PrimaryConns, pin \in UnitPins :
          LET self == [pinnedDomain |-> SSL_PIN_DOMAIN, pinnedHash |-> pin]
          IN  unit' = [op |-> "intercept", host |-> host, conn |-> conn,
                       pin |-> pin,
                       trace |-> interceptTrace(host, conn, self),
                       thrown |-> intercept(host, conn, self)]
    /\ UNCHANGED <<customVars, lib>>

InitValidators ==
    /\ sessionCompromised = FALSE
    /\ sessionIntegrity = TRUE
    /\ validationCount = 0
    /\ lastValidationTimestamp = 0
    /\ interceptorInstalled = FALSE
    /\ interceptor = NoInterceptor
    /\ now = 0
    /\ js = [i \in Calls |-> JsIdle]
    /\ nat = [i \in Calls |-> NatIdle]
    /\ metrics = NoMetrics
    /\ decoy = NoDecoy
    /\ build = AppBuild
    /\ lib = LibOff
    /\ unit = NoUnit
    /\ moduleLinked = TRUE
    /\ hookSync = FALSE
    /\ hookIntercept = FALSE
    /\ hookSleepMs = 0
    /\ hookDecoys = FALSE

NextValidators ==
    \/ validateBoth
    \/ interceptOnce

SpecValidators == InitValidators /\ [][NextValidators]_vars

\* ------------------------------------------- security level "library"
\* src/security/library/httpClient.ts: pinning is delegated to
\* react-native-ssl-public-key-pinning, initialised lazily by secureFetch
\* or directly by initializePinning.

NumLibCalls == 3
LibCalls == 1..NumLibCalls

\* the values SSL_PIN_HASH_n can have in a build: unset or set
LibPinValues(set) == {"", set}

\* a pin list that keeps the pins that are not set
getSSLPinsUnfiltered(hash1, hash2) == <<hash1, hash2>>

\* getSSLPins(): the pins that are set, in order
getSSLPins(hash1, hash2) ==
    (IF hash1 # "" THEN <<hash1>> ELSE <<>>)
        \o (IF hash2 # "" THEN <<hash2>> ELSE <<>>)

LibIdle == [kind |-> "none", pc |-> "idle", fetched |-> FALSE]

\* the entry test of initializePinning, lines 67-69
alreadyInitialized == lib.pinningInitialized

\* the body of initializePinning up to its first await, run by call i;
\* donePc is where the caller continues when the function returns
\* without awaiting the library
initializePinningFrom(i, kind, donePc, fetches) ==
    LET pins == getSSLPins(lib.hash1, lib.hash2)
        done == [kind |-> kind, pc |-> donePc, fetched |-> fetches]
    IN  IF alreadyInitialized
        THEN lib' = [lib EXCEPT !.calls[i] = done]
        ELSE IF Len(pins) < 2 \/ ~lib.available
        THEN lib' = [lib EXCEPT !.pinningInitialized = TRUE,
                                !.calls[i] = done]
        ELSE lib' = [lib EXCEPT
                 !.listeners = @ + 1,
                 !.inits = @ + 1,
                 !.calls[i] = [kind |-> kind, pc |-> "awaitInit",
                               fetched |-> FALSE]]

\* export const initializePinning, called by the app itself
initializePinning(i) ==
    /\ lib.loaded
    /\ lib.calls[i].kind = "none"
    /\ initializePinningFrom(i, "initializePinning", "returned", FALSE)
    /\ UNCHANGED <<customVars, unit>>

\* export const secureFetch of the library level, up to its first await
librarySecureFetch(i) ==
    /\ lib.loaded
    /\ lib.calls[i].kind = "none"
    /\ IF ~lib.pinningInitialized
       THEN initializePinningFrom(i, "secureFetch", "awaitFetch", TRUE)
       ELSE lib' = [lib EXCEPT !.calls[i] =
                [kind |-> "secureFetch", pc |-> "awaitFetch",
                 fetched |-> TRUE]]
    /\ UNCHANGED <<customVars, unit>>

\* the promise of initializeSslPinning settles: lines 107-108 or the
\* catch block, then the caller continues
initializeSslPinningSettled(i) ==
    /\ lib.loaded
    /\ lib.calls[i].pc = "awaitInit"
    /\ \E resolved \in BOOLEAN :
          lib' = [lib EXCEPT
              !.pinningInitialized = TRUE,
              !.pinningError = IF resolved THEN @ ELSE TRUE,
              !.calls[i] =
                  IF lib.calls[i].kind = "secureFetch"
                  THEN [@ EXCEPT !.pc = "awaitFetch", !.fetched = TRUE]
                  ELSE [@ EXCEPT !.pc = "returned"]]
    /\ UNCHANGED <<customVars, unit>>

\* the callback given to addSslPinningErrorListener: the library reports
\* a pinning failure of a request in flight
onSslPinningError ==
    /\ lib.loaded
    /\ lib.listeners > 0
    /\ \E i \in DOMAIN lib.calls : lib.calls[i].pc = "awaitFetch"
    /\ ~lib.pinningError
    /\ lib' = [lib EXCEPT !.pinningError = TRUE]
    /\ UNCHANGED <<customVars, unit>>

\* await fetch(url, options) settles: the response is returned or the
\* error is rethrown
libraryFetchSettled(i) ==
    /\ lib.loaded
    /\ lib.calls[i].pc = "awaitFetch"
    /\ \E ok \in BOOLEAN :
          lib' = [lib EXCEPT
              !.calls[i].pc = IF ok THEN "returned" ELSE "threw"]
    /\ UNCHANGED <<customVars, unit>>

InitLibrary ==
    /\ sessionCompromised = FALSE
    /\ sessionIntegrity = TRUE
    /\ validationCount = 0
    /\ lastValidationTimestamp = 0
    /\ interceptorInstalled = FALSE
    /\ interceptor = NoInterceptor
    /\ now = 0
    /\ js = [i \in Calls |-> JsIdle]
    /\ nat = [i \in Calls |-> NatIdle]
    /\ metrics = NoMetrics
    /\ decoy = NoDecoy
    /\ build = AppBuild
    /\ unit = NoUnit
    /\ moduleLinked = FALSE
    /\ hookSync = FALSE
    /\ hookIntercept = FALSE
    /\ hookSleepMs = 0
    /\ hookDecoys = FALSE
    /\ \E hash1 \in LibPinValues(SSL_PIN_HASH_1),
          hash2 \in LibPinValues(SSL_PIN_HASH_2),
          available \in BOOLEAN :
          lib = [loaded |-> TRUE, hash1 |-> hash1, hash2 |-> hash2,
                 available |-> available,
                 pinningInitialized |-> FALSE, pinningError |-> FALSE,
                 listeners |-> 0, inits |-> 0,
                 calls |-> [i \in LibCalls |-> LibIdle]]

NextLibrary ==
    \/ \E i \in LibCalls : initializePinning(i)
    \/ \E i \in LibCalls : librarySecureFetch(i)
    \/ \E i \in LibCalls : initializeSslPinningSettled(i)
    \/ onSslPinningError
    \/ \E i \in LibCalls : libraryFetchSettled(i)

SpecLibrary == InitLibrary /\ [][NextLibrary]_vars

\* ------------------------------------------------- build configuration
\* metro.config.js and babel.config.js: SECURITY_LEVEL selects the
\* implementation directory that '/security/httpClient' imports resolve to.

\* const validLevels = [...]
validLevels ==
    {"l00", "none", "library", "proxy-bypass", "custom", "frida-resistant"}

\* values process.env.SECURITY_LEVEL can have: a valid level, nothing, an
\* unknown word, a valid level in the wrong case
LevelValues == validLevels \cup {Unset, "", "paranoid", "Custom"}

\* const securityLevel = process.env.SECURITY_LEVEL || 'library'
securityLevelOf(value) == IF value \in {Unset, ""} THEN "library" ELSE value

\* securityLevelMap[securityLevel]; Unset where the object has no such key
securityLevelMap(level) ==
    CASE level = "l00"             -> "none"
      [] level = "none"            -> "none"
      [] level = "library"         -> "library"
      [] level = "proxy-bypass"    -> "library"
      [] level = "custom"          -> "custom"
      [] level = "frida-resistant" -> "frida-resistant"
      [] OTHER                     -> Unset

\* const securityImpl = securityLevelMap[securityLevel] || 'none'
securityImpl(level) ==
    IF securityLevelMap(level) = Unset THEN "none"
    ELSE securityLevelMap(level)

\* getExclusions(level): the directories under src/security/ that the
\* blockList patterns match
getExclusions(level) ==
    CASE level \in {"l00", "none"} ->
             {"library", "proxy-bypass", "custom", "frida-resistant"}
      [] level = "library"      -> {"proxy-bypass", "custom", "frida-resistant"}
      [] level = "proxy-bypass" -> {"custom", "frida-resistant"}
      [] level = "custom"       -> {"frida-resistant"}
      [] OTHER                  -> {}

\* babel.config.js: the warning that names "library" as the default
babelWarns(level) == level \notin validLevels

\* imports a source file may make: security |-> the name contains
\* '/security/', dir |-> the implementation directory it names, "" for the
\* plain '/security/httpClient'
ModuleNames ==
    {[from |-> f, security |-> TRUE, dir |-> ""] :
         f \in {"./", "../", "../../"}}
      \cup {[from |-> "../", security |-> TRUE, dir |-> d] :
                d \in {"none", "library", "custom"}}
      \cup {[from |-> "", security |-> FALSE, dir |-> ""]}

\* resolveRequest: the implementation directory the import resolves to, ""
\* for an import outside src/security
resolveRequest(moduleName, impl) ==
    IF moduleName.security /\ moduleName.dir = "" THEN impl
    ELSE moduleName.dir

\* one build: both configuration files are evaluated and an import is
\* resolved
metroBuild ==
    /\ \E value \in LevelValues, moduleName \in ModuleNames,
          platform \in {"android", "ios"} :
          LET level == securityLevelOf(value)
          IN  build' = [SSL_PIN_HASH_1 |-> build.SSL_PIN_HASH_1,
                        SECURITY_LEVEL |-> value,
                        securityLevel |-> level,
                        warned |-> babelWarns(level),
                        securityImpl |-> securityImpl(level),
                        blockList |-> getExclusions(level),
                        moduleName |-> moduleName,
                        platform |-> platform,
                        resolved |->
                            resolveRequest(moduleName, securityImpl(level))]
    /\ UNCHANGED <<sessionCompromised, nativeVars, moduleLinked, hookSync,
                   hookIntercept, hookSleepMs, hookDecoys, now, js, nat,
                   metrics, decoy, lib, unit>>

InitBuild ==
    /\ InitCommon
    /\ build = AppBuild
    /\ moduleLinked = FALSE
    /\ hookSync = FALSE
    /\ hookIntercept = FALSE
    /\ hookSleepMs = 0
    /\ hookDecoys = FALSE

NextBuild == metroBuild

SpecBuild == InitBuild /\ [][NextBuild]_vars

\* ------------------------------------------------------------------ claims

\* C1: session integrity is a one-way latch. In every step of every
\* interleaving sessionCompromised never goes from true back to false and
\* sessionIntegrity never goes from false back to true, and a metrics read
\* that follows one reporting sessionIntegrity = false never reports true.
C1_LatchOneWay ==
    [][/\ sessionCompromised => sessionCompromised'
       /\ ~sessionIntegrity => ~sessionIntegrity'
       /\ (metrics.taken /\ ~metrics.sessionIntegrity)
              => ~metrics'.sessionIntegrity]_vars

\* both latches tripped, a validation that succeeded after the native trip
\* and was delivered to JS, and a read that saw the tripped flag
C1_Witness ==
    /\ sessionCompromised
    /\ ~sessionIntegrity
    /\ metrics.taken /\ ~metrics.sessionIntegrity
    /\ \E i \in Calls :
          /\ nat[i].trippedAtCall
          /\ nat[i].incremented
          /\ nat[i].pc = "delivered"

\* C2: once sessionCompromised is true, a secureFetch call throws
\* 'DataSync: Session integrity lost' at entry: it calls neither
\* ensureConfigSync nor fetch, and the invocation is over.
C2_BlockedAfterCompromise ==
    [][\A i \in Calls :
         /\ (sessionCompromised /\ js[i].pc = "idle" /\ js'[i].pc # "idle")
              => /\ js'[i].pc = "threw"
                 /\ js'[i].error = MsgSessionLost
                 /\ js'[i].syncCalls = 0
                 /\ js'[i].fetchCalls = 0
                 /\ nat'[i] = NatIdle
                 /\ UNCHANGED <<nativeVars, sessionCompromised>>
         /\ js[i].pc = "threw" => js'[i] = js[i]]_vars

\* a call was made while the session was compromised and has thrown
C2_Witness ==
    \E i \in Calls :
        /\ js[i].blockedAtEntry
        /\ js[i].pc = "threw"
        /\ sessionCompromised

\* C3 (as claimed): ensureConfigSync called while sessionIntegrity is false
\* fails at once with a session-integrity-lost error: it opens no
\* connection, never resolves and never increments validationCount.
C3_NativeLatchChecked ==
    \A i \in Calls :
        nat[i].trippedAtCall
            => /\ ~nat[i].opened
               /\ nat[i].outcome # "resolved"
               /\ ~nat[i].incremented
               /\ nat[i].pc = "settled" => nat[i].message = MsgSessionLost

\* C4 (as claimed): a leaf whose fingerprint is any configured pin, checked
\* with the native floor met, is not rejected by ensureConfigSync.
C4_AnyConfiguredPinAccepted ==
    \A i \in Calls :
        (/\ nat[i].leaf \in ConfiguredPins
         /\ nat[i].elapsedNs >= NativeFloorMs * NanosPerMs)
            => nat[i].outcome # "rejected"

\* C5: a leaf whose fingerprint is no configured pin makes ensureConfigSync
\* reject with CONFIG_MISMATCH / 'DataSync: Configuration mismatch';
\* sessionIntegrity is false once the promise is rejected and the call has
\* not incremented validationCount.
C5_UnpinnedLeafRejected ==
    \A i \in Calls :
        nat[i].leaf \in Fingerprints \ ConfiguredPins
            => /\ nat[i].pc = "settled"
               /\ nat[i].outcome = "rejected"
               /\ nat[i].code = "CONFIG_MISMATCH"
               /\ nat[i].message = MsgMismatch
               /\ ~sessionIntegrity
               /\ ~nat[i].incremented

\* an unpinned leaf was presented after the floor had passed
C5_Witness ==
    \E i \in Calls :
        /\ nat[i].leaf \in Fingerprints \ ConfiguredPins
        /\ nat[i].elapsedNs >= NativeFloorMs * NanosPerMs
        /\ nat[i].outcome = "rejected"

\* C6: with a leaf that matches the pin, ensureConfigSync rejects with the
\* timing anomaly and trips sessionIntegrity exactly when less than 50 ms of
\* clock time have passed since the call started; at 50 ms or more it goes
\* on to count and resolve.
C6_NativeFloor ==
    \A i \in Calls :
        (nat[i].pc \in {"count", "settled"} /\ nat[i].leaf = nat[i].pinHash)
            => IF nat[i].elapsedNs < NativeFloorMs * NanosPerMs
               THEN /\ nat[i].pc = "settled"
                    /\ nat[i].outcome = "rejected"
                    /\ nat[i].message = MsgTiming
                    /\ ~nat[i].incremented
                    /\ ~sessionIntegrity
               ELSE /\ nat[i].pc = "settled" => nat[i].outcome = "resolved"
                    /\ nat[i].pc = "settled" => nat[i].incremented

\* one matching call rejected one nanosecond below the floor and another
\* resolved exactly at the floor
C6_Witness ==
    \E i, j \in Calls :
        /\ nat[i].leaf = nat[i].pinHash
        /\ nat[i].elapsedNs = NativeFloorMs * NanosPerMs - 1
        /\ nat[i].message = MsgTiming
        /\ nat[j].leaf = nat[j].pinHash
        /\ nat[j].elapsedNs = NativeFloorMs * NanosPerMs
        /\ nat[j].outcome = "resolved"

\* C7: when ensureConfigSync resolves and secureFetch measured less than
\* 30 ms around the call, secureFetch sets sessionCompromised, throws and
\* never calls fetch; with 30 ms or more it calls fetch.
C7_JsFloor ==
    \A i \in Calls :
        js[i].syncSeen = "resolved"
            => IF js[i].elapsed < JsFloorMs
               THEN /\ js[i].pc = "threw"
                    /\ js[i].error = MsgSessionLost
                    /\ js[i].fetchCalls = 0
                    /\ sessionCompromised
               ELSE js[i].fetchCalls = 1

\* one call resolved after 29 ms and threw, another resolved after 30 ms and
\* went on to fetch
C7_Witness ==
    \E i, j \in Calls :
        /\ js[i].syncSeen = "resolved"
        /\ js[i].elapsed = JsFloorMs - 1
        /\ js[i].pc = "threw"
        /\ js[j].syncSeen = "resolved"
        /\ js[j].elapsed = JsFloorMs
        /\ js[j].fetchCalls = 1

\* why a settled call was rejected, from what the thread saw
causeOf(n) ==
    CASE n.leaf = "exception" -> "exception"
      [] n.leaf = "empty" -> "empty chain"
      [] n.leaf = "notX509" -> "not X509"
      [] n.leaf \in Fingerprints /\ n.leaf # n.pinHash -> "mismatch"
      [] OTHER -> "timing"

\* C8: every failing outcome of ensureConfigSync (empty chain, leaf that is
\* no X509 certificate, pin mismatch, timing anomaly, exception) has set
\* sessionIntegrity to false in every state in which the promise is
\* rejected, and two rejections carry the same message only if they have the
\* same cause.
C8_FailuresTrip ==
    /\ \A i \in Calls : nat[i].outcome = "rejected" => ~sessionIntegrity
    /\ \A i \in Calls :
         (nat[i].pc = "settled" /\ nat[i].outcome # "resolved")
             => nat[i].outcome = "rejected" /\ nat[i].message # NoError
    /\ \A i, j \in Calls :
         (/\ nat[i].pc = "settled" /\ nat[i].outcome = "rejected"
          /\ nat[j].pc = "settled" /\ nat[j].outcome = "rejected")
             => (nat[i].message = nat[j].message
                    <=> causeOf(nat[i]) = causeOf(nat[j]))

\* two calls rejected for different causes, one of them an exception
C8_Witness ==
    \E i, j \in Calls :
        /\ nat[i].pc = "settled" /\ nat[i].outcome = "rejected"
        /\ nat[j].pc = "settled" /\ nat[j].outcome = "rejected"
        /\ causeOf(nat[i]) = "exception"
        /\ causeOf(nat[j]) \in {"empty chain", "not X509", "timing"}

\* C9 (as claimed): fetch is called only by an invocation whose own
\* ensureConfigSync call has completed successfully.
C9_FetchOnlyAfterValidation ==
    \A i \in Calls :
        js[i].fetchCalls > 0
            => /\ js[i].syncCalls = 1
               /\ nat[i].pc = "delivered"
               /\ nat[i].outcome = "resolved"

\* C10: every rejection of ensureConfigSync delivered to secureFetch sets
\* sessionCompromised and makes secureFetch throw 'DataSync: Configuration
\* sync failed - ' followed by the native message, without calling fetch.
C10_RejectionTripsSession ==
    \A i \in Calls :
        (nat[i].pc = "delivered" /\ nat[i].outcome = "rejected")
            => /\ sessionCompromised
               /\ js[i].pc = "threw"
               /\ Len(js[i].error) > 1
               /\ Head(js[i].error) = MsgSyncFailedPrefix
               /\ Tail(js[i].error) = nat[i].message
               /\ js[i].fetchCalls = 0

\* rejections of two different causes were delivered
C10_Witness ==
    \E i, j \in Calls :
        /\ nat[i].pc = "delivered" /\ nat[i].message = MsgMismatch
        /\ nat[j].pc = "delivered" /\ nat[j].message = MsgTiming
        /\ js[i].pc = "threw" /\ js[j].pc = "threw"

\* a thrown message that starts with 'DataSync'
startsWithDataSync(msg) == Len(msg) > 0 /\ msg[1] \in DataSyncFragments

\* C11: a request to the pinned domain that went through
\* ConfigInterceptor.intercept is answered with a response only if the
\* connection had handshake metadata, a non-empty peer list, an X509 leaf and
\* a leaf fingerprint equal to the pinned hash; otherwise the fetch throws
\* the IOException of the failing check, whose message starts with
\* 'DataSync', and no response is returned.
C11_InterceptorValidates ==
    \A i \in Calls :
        (/\ js[i].intercepted
         /\ lowerCase(js[i].host) = lowerCase(interceptor.pinnedDomain))
            => IF js[i].peer = interceptor.pinnedHash
               THEN js[i].pc = "returned"
               ELSE /\ js[i].pc = "threw"
                    /\ startsWithDataSync(js[i].error)
                    /\ js[i].error =
                         (CASE js[i].peer = "noHandshake" -> MsgUnavailable
                            [] js[i].peer = "empty" -> MsgMissing
                            [] js[i].peer = "notX509" -> MsgFormat
                            [] OTHER -> MsgMismatch)

\* one request to the pinned domain was answered over the pinned leaf and
\* another was refused over a leaf with a different fingerprint
C11_Witness ==
    \E i, j \in Calls :
        /\ js[i].intercepted /\ js[j].intercepted
        /\ js[i].host = SSL_PIN_DOMAIN /\ js[j].host = SSL_PIN_DOMAIN
        /\ js[i].peer = interceptor.pinnedHash /\ js[i].pc = "returned"
        /\ js[j].peer \in Fingerprints \ {interceptor.pinnedHash}
        /\ js[j].pc = "threw"

\* the primary fetch of invocation i was called and failed with a message
\* that contains 'DataSync'
fetchFailedDataSync(j) ==
    /\ j.pc = "threw"
    /\ j.fetchCalls = 1
    /\ \E k \in 1..Len(j.error) : j.error[k] \in DataSyncFragments

\* C12: when the primary fetch inside secureFetch fails with an error whose
\* message contains 'DataSync', sessionCompromised is true by the time the
\* error is rethrown, and every secureFetch call made after that is blocked
\* at entry.
C12_FetchFailureTrips ==
    [][/\ \A i \in Calls :
            (js[i].pc = "awaitFetch" /\ fetchFailedDataSync(js'[i]))
                => sessionCompromised'
       /\ \A i, j \in Calls :
            (/\ fetchFailedDataSync(js[i])
             /\ js[j].pc = "idle" /\ js'[j].pc # "idle")
                => /\ js'[j].pc = "threw"
                   /\ js'[j].blockedAtEntry
                   /\ js'[j].fetchCalls = 0]_vars

\* the interceptor refused the first invocation's request and the next
\* invocation was blocked at entry
C12_Witness ==
    \E i, j \in Calls :
        /\ fetchFailedDataSync(js[i])
        /\ js[i].intercepted
        /\ js[i].error = MsgMismatch
        /\ js[j].blockedAtEntry
        /\ \A k \in Calls : k # i => js[k].syncCalls = 0

\* C13 (a): with only ConfigInterceptor.intercept replaced, an invocation
\* returns a response only if its own ensureConfigSync call found the pinned
\* leaf and resolved
C13_OnlyInterceptReplaced ==
    \A i \in Calls :
        (hookIntercept /\ ~hookSync /\ js[i].pc = "returned")
            => /\ nat[i].outcome = "resolved"
               /\ nat[i].incremented

\* C13 (as claimed): defeating a single path does not defeat the system.
\* With only intercept replaced by a pass-through, a response is returned
\* only after ensureConfigSync found the pinned leaf; with only
\* ensureConfigSync replaced by a stub, a request to the pinned domain is
\* answered with a response only over a connection whose leaf matches the
\* pin, because the interceptor rejects every other one.
C13_SinglePathNotEnough ==
    /\ C13_OnlyInterceptReplaced
    /\ \A i \in Calls :
          (/\ hookSync /\ ~hookIntercept
           /\ js[i].pc = "returned"
           /\ js[i].host = SSL_PIN_DOMAIN)
              => js[i].peer = pinHashArg

\* C14: the decoys have no effect. A step in which validateCertificate,
\* checkSSLPinning or verifyCertificateChain settles, with its own result or
\* a replaced one, changes nothing but the decoy's result; and whatever the
\* decoys resolved, a leaf that does not match the pin is rejected by
\* ensureConfigSync and secureFetch returns a response only after its own
\* ensureConfigSync call resolved with the counter incremented.
C14_DecoyNonEffect ==
    /\ [][decoy' # decoy
            => UNCHANGED <<sessionCompromised, sessionIntegrity,
                           validationCount, lastValidationTimestamp,
                           interceptorInstalled, interceptor, js, nat,
                           metrics, now>>]_vars
    /\ [](\A i \in DecoyCalls :
            /\ (nat[i].leaf \in Fingerprints \ {nat[i].pinHash})
                  => /\ nat[i].outcome = "rejected"
                     /\ nat[i].message = MsgMismatch
                     /\ ~nat[i].incremented
                     /\ ~sessionIntegrity
            /\ js[i].pc = "returned"
                  => nat[i].outcome = "resolved" /\ nat[i].incremented)

\* every decoy's result was forced to true and a mismatching leaf was
\* rejected all the same; the invocation threw
C14_Witness ==
    \E i \in DecoyCalls :
        /\ hookDecoys
        /\ decoy.method # "none" /\ decoy.value = "true"
        /\ nat[i].pc = "delivered"
        /\ nat[i].message = MsgMismatch
        /\ js[i].pc = "threw"
        /\ sessionCompromised

\* C15: the decoys are inert. checkSSLPinning and verifyCertificateChain
\* resolve true on every call; validateCertificate always resolves, with
\* true when the connection threw and otherwise with whether the chain is
\* non-empty; none of the three writes sessionIntegrity, validationCount,
\* lastValidationTimestamp or interceptorInstalled.
C15_DecoysInert ==
    /\ []((~hookDecoys /\ decoy.method # "none")
            => /\ decoy.outcome = "resolved"
               /\ decoy.method \in {"checkSSLPinning", "verifyCertificateChain"}
                     => decoy.value = "true"
               /\ decoy.method = "validateCertificate"
                     => decoy.value =
                          (IF decoy.input = "empty" THEN "false" ELSE "true"))
    /\ [][decoy' # decoy => UNCHANGED nativeVars]_vars

\* validateCertificate resolved true after its connection threw, while a
\* validation had already been counted
C15_Witness ==
    /\ ~hookDecoys
    /\ decoy.method = "validateCertificate"
    /\ decoy.input = "exception"
    /\ decoy.value = "true"
    /\ validationCount > 0

\* the ensureConfigSync calls that have resolved successfully
resolvedCalls == {i \in DOMAIN nat : nat[i].incremented}

\* C16 (as claimed): in every interleaving of concurrent ensureConfigSync
\* calls validationCount equals the number of calls that have resolved
\* successfully.
C16_CountEqualsSuccesses == validationCount = Cardinality(resolvedCalls)

\* C17 (as claimed): in every interleaving of concurrent ensureConfigSync
\* threads and getConnectionMetrics calls, the validationCount reported by a
\* snapshot is never smaller than the one reported by the snapshot before.
C17_SnapshotsMonotonic ==
    [][(metrics.taken /\ metrics'.taken)
          => metrics'.validationCount >= metrics.validationCount]_vars

\* C18 (as claimed): once a validation failure of any layer has tripped the
\* session, so that secureFetch blocks requests, a snapshot taken by
\* getConnectionMetrics reports sessionIntegrity = false.
C18_SnapshotReflectsTrip ==
    [][(sessionCompromised /\ metrics' # metrics)
          => ~metrics'.sessionIntegrity]_vars

\* C19: the metrics are read-only and never consulted for trust. A
\* getConnectionMetrics step changes nothing but the snapshot; whatever
\* validationCount and lastValidationTimestamp are, a secureFetch call made
\* while the session is compromised is blocked at entry, and
\* ensureConfigSync resolves exactly when the leaf matches the pin and the
\* native floor is met.
C19_MetricsReadOnly ==
    /\ [][/\ metrics' # metrics
              => UNCHANGED <<sessionCompromised, sessionIntegrity,
                             validationCount, lastValidationTimestamp,
                             interceptorInstalled, interceptor, js, nat>>
          /\ \A i \in Calls :
               (sessionCompromised /\ js[i].pc = "idle" /\ js'[i].pc # "idle")
                  => js'[i].blockedAtEntry]_vars
    /\ [](\A i \in Calls :
            nat[i].pc = "settled"
               => (nat[i].outcome = "resolved"
                     <=> /\ nat[i].leaf = nat[i].pinHash
                         /\ nat[i].elapsedNs >= NativeFloorMs * NanosPerMs))

\* a snapshot showed a counted validation, and a call made after the trip
\* was blocked all the same
C19_Witness ==
    /\ metrics.taken
    /\ metrics.validationCount > 0
    /\ metrics.lastTimestamp > 0
    /\ validationCount > 0
    /\ \E i \in Calls : js[i].blockedAtEntry

\* C20: no retries. One secureFetch invocation calls ensureConfigSync at
\* most once and fetch at most once; an invocation whose ensureConfigSync
\* call was rejected has thrown without calling fetch, an invocation whose
\* fetch failed has thrown, every thrown invocation carries an error, and a
\* thrown invocation takes no further step: no second native call is
\* started for it and its request is not sent again.
C20_NoRetries ==
    /\ [](\A i \in Calls :
            /\ js[i].syncCalls <= 1
            /\ js[i].fetchCalls <= 1
            /\ js[i].syncSeen = "rejected"
                  => js[i].pc = "threw" /\ js[i].fetchCalls = 0
            /\ js[i].pc = "threw" => js[i].error # NoError)
    /\ [][\A i \in Calls :
            /\ js[i].pc = "threw"
                  => /\ js'[i] = js[i]
                     /\ nat'[i].pc \notin {"install", "connect", "count"}
            /\ (js[i].pc = "awaitFetch" /\ js'[i].pc # "awaitFetch")
                  => /\ js'[i].pc \in {"returned", "threw"}
                     /\ js'[i].fetchCalls = 1
            /\ (nat[i].outcome = "rejected" /\ nat[i].pc = "delivered")
                  => nat'[i] = nat[i]]_vars

\* one invocation ended by a rejected ensureConfigSync without a request,
\* another ended by its one failed request
C20_Witness ==
    \E i, j \in Calls :
        /\ js[i].syncSeen = "rejected" /\ js[i].pc = "threw"
        /\ js[i].syncCalls = 1 /\ js[i].fetchCalls = 0
        /\ js[j].syncSeen = "resolved" /\ js[j].pc = "threw"
        /\ js[j].syncCalls = 1 /\ js[j].fetchCalls = 1

\* both documented replacements of Approach A are installed
approachA == hookSync /\ hookIntercept /\ hookSleepMs = DocHookSleepMs

\* C21: the documented bypass works. With ConfigInterceptor.intercept
\* replaced by a pass-through and ensureConfigSync replaced by the stub that
\* sleeps 100 ms and resolves, neither sessionCompromised nor
\* sessionIntegrity is ever tripped, no invocation is stopped by a check (the
\* only failure left is the network's own), and a request that reaches the
\* server is answered with a response whatever leaf the server presents.
C21_ApproachABypasses ==
    approachA
        => /\ ~sessionCompromised
           /\ sessionIntegrity
           /\ ~interceptorInstalled
           /\ \A i \in Calls :
                 /\ js[i].pc = "threw" => js[i].error = MsgNetwork
                 /\ js[i].host # "" => js[i].pc = "returned"
                 /\ js[i].syncSeen = "resolved" => js[i].elapsed >= JsFloorMs

\* under Approach A a request to the pinned domain was answered over a leaf
\* that matches no configured pin
C21_Witness ==
    /\ approachA
    /\ \E i \in Calls :
          /\ js[i].pc = "returned"
          /\ js[i].host = SSL_PIN_DOMAIN
          /\ js[i].peer \in Fingerprints \ ConfiguredPins
          /\ js[i].elapsed >= DocHookSleepMs
          /\ nat[i].value = "null"

\* C24 (as claimed): a single failure poisons in-flight requests too. No
\* invocation calls the primary fetch in a state in which sessionCompromised
\* is already true.
C24_NoFetchAfterTrip ==
    [][\A i \in Calls :
          js'[i].fetchCalls > js[i].fetchCalls => ~sessionCompromised]_vars

\* C25: the checks of ensureConfigSync run in a fixed order and the first
\* failing one decides the rejection: empty chain, leaf that is no X509
\* certificate, pin mismatch, timing floor. A mismatching leaf is rejected
\* as CONFIG_MISMATCH also when less than 50 ms have passed, and the timing
\* anomaly is reported only for a leaf that matches the pin.
C25_CheckOrder ==
    \A i \in Calls :
        (nat[i].pc = "settled" /\ nat[i].leaf \notin {"none", "exception"})
            => IF nat[i].leaf = "empty"
               THEN nat[i].message = MsgNoConfig /\ nat[i].code = "CONFIG_ERROR"
               ELSE IF nat[i].leaf = "notX509"
               THEN nat[i].message = MsgFormat /\ nat[i].code = "CONFIG_ERROR"
               ELSE IF nat[i].leaf # nat[i].pinHash
               THEN /\ nat[i].message = MsgMismatch
                    /\ nat[i].code = "CONFIG_MISMATCH"
               ELSE IF nat[i].elapsedNs < NativeFloorMs * NanosPerMs
               THEN nat[i].message = MsgTiming /\ nat[i].code = "CONFIG_ERROR"
               ELSE nat[i].outcome = "resolved" /\ nat[i].message = NoError

\* a mismatching leaf checked before the floor was rejected as a mismatch
C25_Witness ==
    \E i \in Calls :
        /\ nat[i].pc = "settled"
        /\ nat[i].leaf \in Fingerprints \ {nat[i].pinHash}
        /\ nat[i].elapsedNs >= 0
        /\ nat[i].elapsedNs < NativeFloorMs * NanosPerMs
        /\ nat[i].code = "CONFIG_MISMATCH"

\* the error an apiRequest call caught names 'DataSync'
caughtDataSync(j) ==
    \E k \in 1..Len(j.error) : j.error[k] \in DataSyncFragments

\* C22: apiRequest always resolves with one of its three results. An error
\* whose message names 'DataSync' is returned as CERTIFICATE_PINNING_FAILED;
\* a call made after the session was compromised returns exactly that, and
\* so does every call that catches any error while the session is
\* compromised; the network-error result is returned only for an error that
\* does not name 'DataSync'.
C22_ApiRequestMapsErrors ==
    /\ [](\A i \in ApiCalls :
            js[i].pc = "apiDone"
               => /\ js[i].api \in {"RESPONSE", "CERTIFICATE_PINNING_FAILED",
                                     "NETWORK_ERROR"}
                  /\ caughtDataSync(js[i])
                        => js[i].api = "CERTIFICATE_PINNING_FAILED"
                  /\ js[i].blockedAtEntry
                        => js[i].api = "CERTIFICATE_PINNING_FAILED"
                  /\ js[i].api = "NETWORK_ERROR"
                        => js[i].error # NoError /\ ~caughtDataSync(js[i])
                  /\ js[i].api = "RESPONSE" <=> js[i].error = NoError)
    /\ [][\A i \in ApiCalls :
            (/\ js[i].pc # "apiDone" /\ js'[i].pc = "apiDone"
             /\ js'[i].error # NoError /\ sessionCompromised)
                => js'[i].api = "CERTIFICATE_PINNING_FAILED"]_vars

\* one call returned the pinning failure for an interceptor rejection, and
\* a later call, blocked at entry, returned the same
C22_Witness ==
    \E i, j \in ApiCalls :
        /\ js[i].pc = "apiDone" /\ js[i].error = MsgMismatch
        /\ js[i].api = "CERTIFICATE_PINNING_FAILED"
        /\ js[j].pc = "apiDone" /\ js[j].blockedAtEntry
        /\ js[j].api = "CERTIFICATE_PINNING_FAILED"

\* C23: library level, pinning is initialised once. Over every sequence
\* and interleaving of initializePinning and secureFetch calls, including
\* secureFetch calls started before the first initialisation has finished,
\* initializeSslPinning and addSslPinningErrorListener are each invoked at
\* most once.
C23_InitializedOnce ==
    lib.loaded => (lib.inits <= 1 /\ lib.listeners <= 1)

\* C26: the interceptor is installed once. In every interleaving of
\* concurrent ensureConfigSync calls setOkHttpClientFactory is invoked at
\* most once, the installed ConfigInterceptor carries the domain and pin of
\* the call that installed it, and a later call with a different domain or
\* pin never changes what the interceptor checks.
C26_InstalledOnce ==
    /\ [](interceptor.factoryCalls <= 1)
    /\ [][/\ interceptorInstalled
              => (interceptorInstalled' /\ interceptor' = interceptor)
          /\ (~interceptorInstalled /\ interceptorInstalled')
              => \E i \in DOMAIN nat :
                    /\ nat[i].pc = "install" /\ nat'[i].pc = "connect"
                    /\ interceptor'.pinnedDomain = nat[i].domain
                    /\ interceptor'.pinnedHash = nat[i].pinHash]_vars

\* two calls with different arguments have both run the installer, and
\* the interceptor carries the arguments of one of them only
C26_Witness ==
    \E i, j \in DOMAIN nat :
        /\ nat[i].pc \in {"connect", "count", "settled"}
        /\ nat[j].pc \in {"connect", "count", "settled"}
        /\ nat[i].domain = SSL_PIN_DOMAIN
        /\ nat[j].domain # nat[i].domain
        /\ nat[j].pinHash # nat[i].pinHash
        /\ interceptorInstalled
        /\ interceptor.factoryCalls = 1
        /\ interceptor.pinnedDomain = nat[i].domain
        /\ interceptor.pinnedHash = nat[i].pinHash

\* the events of a trace that are certificate checks
CheckEvents == {"checkHandshake", "checkCerts", "checkX509", "checkPin"}
\* how often an event occurs in a trace
occurrences(trace, event) ==
    Cardinality({k \in DOMAIN trace : trace[k] = event})

C30_ProceedFirst ==
    (unit.op = "intercept" /\ lowerCase(unit.host) = lowerCase(SSL_PIN_DOMAIN))
        => /\ occurrences(unit.trace, "proceed") = 1
           /\ unit.trace[1] = "proceed"
           /\ unit.thrown = MsgMismatch
                  => \E k \in DOMAIN unit.trace :
                        /\ unit.trace[k] = "closeBody"
                        /\ k + 1 = Len(unit.trace)
                        /\ unit.trace[k + 1] = "throw"

\* a request to the pinned host named in another case was sent, its
\* certificate did not match, the body was closed and the error thrown
C30_Witness ==
    /\ unit.op = "intercept"
    /\ unit.host = "VulnBank.org"
    /\ unit.thrown = MsgMismatch
    /\ unit.trace = <<"proceed", "checkHandshake", "checkCerts",
                      "checkX509", "checkPin", "closeBody", "throw">>

\* C28: every ensureConfigSync call settles its promise exactly once. On
\* every path (success, each early rejection, exception) one of
\* promise.resolve and promise.reject is called, never both and never
\* twice, a settled call does nothing more, and with connect and read
\* returning or timing out every started call eventually settles.
C28_SettlesExactlyOnce ==
    /\ [](\A i \in LiveCalls :
            /\ nat[i].settles <= 1
            /\ nat[i].settles = 1 <=> nat[i].pc = "settled"
            /\ nat[i].settles = 1
                   <=> nat[i].outcome \in {"resolved", "rejected"})
    /\ [][\A i \in LiveCalls :
              nat[i].pc = "settled" => nat'[i] = nat[i]]_vars
    /\ \A i \in LiveCalls :
           (nat[i].pc # "none") ~> (nat[i].pc = "settled")

\* one call has resolved and another has been rejected, each having
\* settled its promise once
C28_Witness ==
    \E i, j \in LiveCalls :
        /\ nat[i].pc = "settled" /\ nat[i].outcome = "resolved"
        /\ nat[i].settles = 1
        /\ nat[j].pc = "settled" /\ nat[j].outcome = "rejected"
        /\ nat[j].settles = 1

\* C31: the interceptor is installed before the first validation
\* succeeds. installInterceptorIfNeeded runs before the verification
\* connection is opened, so whenever an un-hooked ensureConfigSync call has
\* opened its connection or resolved, interceptorInstalled is true, and
\* every primary fetch that secureFetch issues after a successful
\* ensureConfigSync is issued, and answered, with the interceptor in place.
C31_InstalledBeforeFetch ==
    \A i \in Calls :
        /\ nat[i].pc \in {"connect", "count"} => interceptorInstalled
        /\ nat[i].outcome = "resolved" => interceptorInstalled
        /\ (js[i].syncSeen = "resolved" /\ js[i].fetchCalls > 0)
               => interceptorInstalled
        /\ (js[i].syncSeen = "resolved" /\ js[i].host # "")
               => js[i].intercepted

\* a call whose validation resolved has had its request to the pinned
\* domain answered through the installed interceptor
C31_Witness ==
    \E i \in Calls :
        /\ js[i].syncSeen = "resolved"
        /\ js[i].pc = "returned"
        /\ js[i].host = SSL_PIN_DOMAIN
        /\ js[i].intercepted
        /\ interceptorInstalled

\* C32: a failed validation leaves the metrics counters untouched. Every
\* step of an ensureConfigSync call other than its promise.resolve, and in
\* particular the step that rejects it (empty chain, non-X509 leaf,
\* mismatch, timing anomaly, exception), leaves validationCount and
\* lastValidationTimestamp as they were.
C32_RejectionKeepsCounters ==
    [][\A i \in Calls :
          (nat'[i] # nat[i] /\ nat'[i].outcome # "resolved")
              => /\ validationCount' = validationCount
                 /\ lastValidationTimestamp' = lastValidationTimestamp]_vars

\* one call has been counted and another has been rejected, the counters
\* showing the one success
C32_Witness ==
    \E i, j \in Calls :
        /\ nat[i].pc = "settled" /\ nat[i].outcome = "rejected"
        /\ nat[j].outcome = "resolved" /\ nat[j].incremented
        /\ validationCount = 1
        /\ lastValidationTimestamp > 0

\* C33: an ordinary network failure does not trip the session. When the
\* primary fetch fails with an error whose message does not contain
\* 'DataSync', secureFetch leaves sessionCompromised as it was and rethrows
\* that error; and while sessionCompromised is false a secureFetch call that
\* starts is not blocked at entry: with the native module present it runs
\* the validation.
C33_NetworkFailureKeepsSession ==
    [][/\ \A i \in Calls :
            (/\ js[i].pc = "awaitFetch" /\ js'[i].pc = "threw"
             /\ \A k \in 1..Len(js'[i].error) :
                    js'[i].error[k] \notin DataSyncFragments)
                => /\ sessionCompromised' = sessionCompromised
                   /\ js'[i].error = MsgNetwork
       /\ \A j \in Calls :
            (js[j].pc = "idle" /\ js'[j].pc # "idle" /\ ~sessionCompromised)
                => /\ ~js'[j].blockedAtEntry
                   /\ moduleLinked => js'[j].pc = "awaitSync"]_vars

\* a validated invocation's request failed in the network, the session is
\* intact, and the next invocation is running its validation
C33_Witness ==
    \E i, j \in Calls :
        /\ i < j
        /\ js[i].pc = "threw" /\ js[i].error = MsgNetwork
        /\ js[i].syncSeen = "resolved" /\ js[i].fetchCalls = 1
        /\ ~sessionCompromised
        /\ js[j].pc = "awaitSync"

\* the build defines no pin: SSL_PIN_HASH_1 is missing or empty
noPin == build.SSL_PIN_HASH_1 \in {Unset, ""}

\* C34: with no pin configured (pinHash is the empty string) and the
\* native module present, every secureFetch call fails closed: no
\* ensureConfigSync call resolves, each one that ends is rejected, the
\* invocation that sees the rejection sets sessionCompromised and throws,
\* and no invocation ever calls the primary fetch.
C34_NoPinFailsClosed ==
    (noPin /\ moduleLinked) =>
        \A i \in Calls :
            /\ nat[i].pinHash = ""
            /\ nat[i].outcome # "resolved" /\ nat[i].pc # "count"
            /\ nat[i].pc = "settled" => nat[i].outcome = "rejected"
            /\ js[i].fetchCalls = 0
            /\ js[i].pc \notin {"awaitFetch", "returned"}
            /\ js[i].syncSeen = "rejected" => sessionCompromised
            /\ js[i].pc \notin {"idle", "awaitSync"}
                   => (js[i].pc = "threw" /\ sessionCompromised)

\* without a pin the server presented the leaf of the shared pin and was
\* still rejected as a mismatch; the invocation threw, and the next one was
\* blocked at entry
C34_Witness ==
    /\ noPin /\ moduleLinked
    /\ \E i, j \in Calls :
          /\ nat[i].outcome = "rejected" /\ nat[i].message = MsgMismatch
          /\ js[i].pc = "threw" /\ js[i].syncSeen = "rejected"
          /\ js[j].blockedAtEntry
    /\ sessionCompromised

\* C35: secureFetch proceeds to the primary fetch only when
\* ensureConfigSync resolved with the value true; a resolution with false,
\* null or any other value is not taken for a successful validation.
C35_OnlyTrueProceeds ==
    \A i \in Calls :
        js[i].fetchCalls > 0
            => (js[i].syncSeen = "resolved" /\ nat[i].value = "true")

\* how many of SSL_PIN_HASH_1 and SSL_PIN_HASH_2 the library build defines
libPinCount ==
    (IF lib.hash1 # "" THEN 1 ELSE 0) + (IF lib.hash2 # "" THEN 1 ELSE 0)
\* the library-level invocations that are past initializePinning
libPastInit(c) ==
    \/ c.kind = "initializePinning" /\ c.pc = "returned"
    \/ c.kind = "secureFetch" /\ c.pc \in {"awaitFetch", "returned", "threw"}

\* C36: library level. Every path through initializePinning (fewer than 2
\* pins, pinning unavailable, initialisation succeeded, initialisation
\* failed) ends with pinningInitialized = true, and the flag is never
\* reset; with fewer than 2 pins or an unavailable platform
\* initializeSslPinning is never called; and secureFetch performs the fetch
\* in every one of these cases, also when pinningError is set.
C36_AlwaysInitializedAndFetches ==
    /\ [](\A i \in LibCalls :
            /\ libPastInit(lib.calls[i]) => lib.pinningInitialized
            /\ (lib.calls[i].kind = "secureFetch" /\ libPastInit(lib.calls[i]))
                   => lib.calls[i].fetched)
    /\ []((libPinCount < 2 \/ ~lib.available)
             => (lib.inits = 0 /\ lib.listeners = 0))
    /\ [][/\ lib.pinningInitialized => lib'.pinningInitialized
          /\ \A i \in LibCalls :
                (/\ lib'.calls[i].kind = "secureFetch"
                 /\ lib.calls[i].pc \in {"idle", "awaitInit"}
                 /\ lib'.calls[i].pc \notin {"idle", "awaitInit"})
                    => /\ lib'.calls[i].pc = "awaitFetch"
                       /\ lib'.calls[i].fetched]_vars

\* pinningError is set, by a failed initialisation or a reported pinning
\* failure, and a secureFetch call has still performed its fetch and
\* returned the response
C36_Witness ==
    /\ lib.loaded
    /\ lib.pinningError /\ lib.pinningInitialized
    /\ lib.inits = 1
    /\ \E i \in LibCalls :
          /\ lib.calls[i].kind = "secureFetch"
          /\ lib.calls[i].fetched
          /\ lib.calls[i].pc = "returned"

\* a build has been configured
built == "securityLevel" \in DOMAIN build

\* C37: an invalid SECURITY_LEVEL defaults to the library implementation.
\* For every value that is not one of the six levels the build resolves a
\* '/security/httpClient' import to the library httpClient, as the build
\* warning says; and for every valid level the implementation directory
\* resolved is not in that level's own block list.
C37_InvalidLevelIsLibrary ==
    built =>
        /\ (build.warned /\ build.moduleName.security
               /\ build.moduleName.dir = "")
               => build.resolved = "library"
        /\ build.securityLevel \in validLevels
               => build.securityImpl \notin build.blockList

====
